---- MODULE Spec2Model ----
(***************************************************************************)
(* Model of the two scripts of the repository:                             *)
(*   src/restapi.js  the analysis relay service (two variants in the file; *)
(*                   variant 1 = lines 1-179, variant 2 = lines 180-615)   *)
(*   src/batch.js    the batch dictionary job                              *)
(* Specification Spec is the relay service, BatchSpec the batch job.       *)
(*                                                                         *)
(* Strings that the code inspects or concatenates are sequences of text    *)
(* pieces: concatenation is \o, String.includes is a search for a          *)
(* contiguous run of pieces.  A provider selector is a sequence of         *)
(* characters, so that toUpperCase is computed character by character.     *)
(***************************************************************************)
EXTENDS Integers, Sequences, FiniteSets, TLC

VARIABLES
    variant,         \* which variant of restapi.js is running (1 or 2)
    hits,            \* limiter store: requests counted per caller in the current window
    requestCounter,  \* restapi.js:206 usage counters
    sent,            \* per caller: requests sent to limited routes in the current window
    phase,           \* "idle" or "pending" (a handler is suspended at an await)
    req,             \* the request being handled (or the last one handled)
    branch,          \* per provider: the analyzeImage / ask call of this request
    res,             \* the response sent for req (NoRes while pending)
    settled,         \* the providers whose analyzeImage / ask call settled, in order
    bpc,             \* batch job: position in processWords
    lines,           \* batch job: lines of cached_words.txt
    outDir,          \* batch job: offsets of the chunk files present on disk
    words,           \* batch job: const words
    chunks,          \* batch job: const chunks
    ci,              \* batch job: loop variable i of the processing loop (0-based)
    allResults,      \* batch job: const allResults
    requested,       \* batch job: log of provider requests (chunk offset), in order
    contrib,         \* batch job: what each queryGemini call returned, in order
    inflight,        \* batch job: provider calls started and not yet returned
    combined         \* batch job: content of all_dic.json (NoFile when not written)

relayVars == <<variant, hits, requestCounter, sent, phase, req, branch, res, settled>>
batchVars == <<bpc, lines, outDir, words, chunks, ci, allResults, requested,
               contrib, inflight, combined>>
vars == <<relayVars, batchVars>>

----------------------------------------------------------------------------
(* Bounds of the model *)

\* no further request is sent once the limiter has counted this many in all
MaxHits == 12
\* no further request reaches a handler once requestCounter.total is this
MaxTotal == 2
\* the longest word list of the batch job
MaxWords == 201

----------------------------------------------------------------------------
(* Strings *)

Null == <<"<null>">>          \* the JSON value null, distinct from every string

LowerChars == <<"a","b","c","d","e","f","g","h","i","j","k","l","m",
                "n","o","p","q","r","s","t","u","v","w","x","y","z">>
UpperChars == <<"A","B","C","D","E","F","G","H","I","J","K","L","M",
                "N","O","P","Q","R","S","T","U","V","W","X","Y","Z">>

UpperChar(c) ==
    IF \E k \in 1..Len(LowerChars) : LowerChars[k] = c
    THEN UpperChars[CHOOSE k \in 1..Len(LowerChars) : LowerChars[k] = c]
    ELSE c

\* String.prototype.toUpperCase
toUpperCase(s) == [k \in 1..Len(s) |-> UpperChar(s[k])]

\* String.prototype.includes on piece sequences
includes(hay, needle) ==
    \E k \in 0..(Len(hay) - Len(needle)) :
        SubSeq(hay, k + 1, k + Len(needle)) = needle

\* the left fold of += over the streamed fragments
RECURSIVE Concat(_)
Concat(frags) ==
    IF frags = <<>> THEN <<>> ELSE Head(frags) \o Concat(Tail(frags))

----------------------------------------------------------------------------
(* Relay service: the provider enumeration and the selector field *)

GEMINI == <<"G","E","M","I","N","I">>
MIXTRAL == <<"M","I","X","T","R","A","L">>
GEMINI_THINKING == <<"G","E","M","I","N","I","_","T","H","I","N","K","I","N","G">>

\* own keys of the object literal ModelType (all its values are non-empty strings)
ModelType(v) ==
    IF v = 1 THEN {GEMINI, MIXTRAL} ELSE {GEMINI, MIXTRAL, GEMINI_THINKING}

\* ModelType is a plain object literal: a property read also finds the
\* properties it inherits from Object.prototype, all of them truthy
ObjectPrototypeKeys ==
    { <<"c","o","n","s","t","r","u","c","t","o","r">>,
      <<"t","o","S","t","r","i","n","g">>,
      <<"_","_","p","r","o","t","o","_","_">> }

\* the truthiness of ModelType[key]
ModelTypeHas(v, key) == key \in ModelType(v) \cup ObjectPrototypeKeys

\* values of the body field `model`: missing, a string, or a non-string value
\* (multipart: a field sent more than once arrives as an array; JSON: any type)
Undefined == [type |-> "undefined", chars |-> <<>>]
NonString == [type |-> "array", chars |-> <<>>]
Str(s) == [type |-> "string", chars |-> s]

ModelFields ==
    { Undefined, NonString,
      Str(GEMINI), Str(<<"g","e","m","i","n","i">>),
      Str(<<"M","i","x","t","r","a","l">>),
      Str(<<"g","e","m","i","n","i","_","t","h","i","n","k","i","n","g">>),
      Str(<<"c","o","n","s","t","r","u","c","t","o","r">>),
      Str(<<"g","p","t">>), Str(<<>>) }

Err(name, message) == [name |-> name, message |-> message]
NoErr == Err("", <<>>)
\* Error.prototype.toString
ErrToString(e) == <<e.name, ": ">> \o e.message

\* model?.toUpperCase(): undefined for a missing field, the upper-cased string
\* for a string, a TypeError for a value that has no toUpperCase method
UpperCaseOf(field) ==
    [threw |-> field.type = "array",
     defined |-> field.type = "string",
     chars |-> IF field.type = "string" THEN toUpperCase(field.chars) ELSE <<>>]

\* the selector the handler reads: the key used in ModelType[modelType]
\* (the key of the value undefined is the string "undefined")
SelectorKey(field) ==
    IF UpperCaseOf(field).defined THEN UpperCaseOf(field).chars
    ELSE <<"u","n","d","e","f","i","n","e","d">>

NotAFunction == Err("TypeError", <<"model?.toUpperCase is not a function">>)

----------------------------------------------------------------------------
(* Relay service: provider replies and the extraction of the JSON object *)

AR(pd, ed, pid, info) ==
    [production_date |-> pd, expiration_date |-> ed,
     production_id |-> pid, additional_info |-> info]

NullFilled == AR(Null, Null, Null, Null)
Parsed1 == AR(<<"2024.08.20">>, <<"2026.08.20">>, Null, Null)
Parsed2 == AR(Null, <<"2025.04.01">>, Null, <<"Single unlabeled date found">>)

\* texts of JSON objects a provider may send, and what JSON.parse makes of them
ObjectTexts == {"{obj1}", "{obj2}"}
ObjectValue(t) == IF t = "{obj1}" THEN Parsed1 ELSE Parsed2

\* text.match of the fenced-block pattern (a json code fence, written ~~~ here):
\* the first opening fence and the first closing fence after it; group 1 is
\* what lies between
FenceMatch(text) ==
    LET opens == {a \in 1..Len(text) : text[a] = "~~~json"}
        a == CHOOSE x \in opens : \A y \in opens : x <= y
        closes == {b \in 1..Len(text) : b > a /\ text[b] \in {"~~~", "~~~json"}}
        b == CHOOSE x \in closes : \A y \in closes : x <= y
    IN  IF opens = {} THEN [found |-> FALSE, group |-> <<>>]
        ELSE IF closes = {} THEN [found |-> FALSE, group |-> <<>>]
        ELSE [found |-> TRUE, group |-> SubSeq(text, a + 1, b - 1)]

\* JSON.parse of the captured group: one object text parses, anything else throws
JSONParseObject(group) ==
    IF Len(group) = 1 /\ group[1] \in ObjectTexts
    THEN [ok |-> TRUE, value |-> ObjectValue(group[1])]
    ELSE [ok |-> FALSE, value |-> NullFilled]

SyntaxError == Err("SyntaxError", <<"Unexpected token in JSON">>)

\* what a provider call comes to: it rejects with an error (status is the
\* upstream HTTP status, 0 when there is none), or it streams fragments
\* (label and json say what was sent: "error"; "json", a reply holding the
\* object text json in a fenced block; "nojson", a reply holding none; "text")
Reject(status, e) ==
    [kind |-> "reject", status |-> status, error |-> e, frags |-> <<>>,
     label |-> "error", json |-> ""]
Reply(label, json, frags) ==
    [kind |-> "reply", status |-> 200, error |-> NoErr, frags |-> frags,
     label |-> label, json |-> json]
NoOutcome ==
    [kind |-> "none", status |-> 0, error |-> NoErr, frags |-> <<>>,
     label |-> "none", json |-> ""]

NetworkError == Err("Error", <<"fetch failed">>)
TooManyRequests ==
    Err("Error", <<"[429 ", "Too Many Requests", "] Resource has been exhausted">>)
RateLimitedPlain == Err("Error", <<"Status 429 ", "Requests rate limit exceeded">>)
Overloaded ==
    Err("Error", <<"[503 Service Unavailable] The model is overloaded. ",
                   "Please try again later", ".">>)

AnalysisOutcomes ==
    { Reject(0, NetworkError), Reject(429, TooManyRequests),
      Reply("nojson", "", << <<"txt">> >>),
      Reply("json", "{obj1}", << <<"~~~json", "{obj1}">>, <<"~~~">> >>),
      Reply("json", "{obj2}", << <<"txt", "~~~json">>, <<"{obj2}", "~~~", "txt">> >>),
      Reply("nojson", "", << <<"~~~json", "txt", "~~~">> >>),
      Reply("nojson", "", << <<"~~~json", "{obj1}">> >>) }

\* a settled promise
Fulfilled(data, response) ==
    [state |-> "fulfilled", data |-> data, response |-> response, error |-> NoErr]
Rejected(e) ==
    [state |-> "rejected", data |-> NullFilled, response |-> <<>>, error |-> e]

NoJsonFound(who) == Err("Error", <<"No JSON content found in ", who, " response">>)

\* analyzeWithGemini / analyzeWithGeminiThinking (and variant 1's analyzeWithMixtral):
\* every failure is thrown
ExtractOrThrow(who, o) ==
    IF o.kind = "reject" THEN Rejected(o.error)
    ELSE LET m == FenceMatch(Concat(o.frags))
             p == JSONParseObject(m.group)
         IN  IF ~m.found THEN Rejected(NoJsonFound(who))
             ELSE IF p.ok THEN Fulfilled(p.value, <<>>)
             ELSE Rejected(SyntaxError)

analyzeWithGemini(o) == ExtractOrThrow("Gemini", o)
analyzeWithGeminiThinking(o) == ExtractOrThrow("Gemini Thinking", o)

\* variant 2's analyzeWithMixtral: its own try/catch turns every failure
\* into a returned object
analyzeWithMixtral(v, o) ==
    IF v = 1 THEN ExtractOrThrow("Mixtral", o)
    ELSE IF o.kind = "reject"
    THEN Fulfilled(AR(Null, Null, Null, <<"Mixtral Error: ">> \o o.error.message), <<>>)
    ELSE LET m == FenceMatch(Concat(o.frags))
             p == JSONParseObject(m.group)
         IN  IF ~m.found
             THEN Fulfilled(AR(Null, Null, Null,
                               <<"Error: No valid JSON found in Mixtral response">>), <<>>)
             ELSE IF p.ok THEN Fulfilled(p.value, <<>>)
             ELSE Fulfilled(AR(Null, Null, Null,
                               <<"Mixtral Error: ">> \o SyntaxError.message), <<>>)

Providers == {"Gemini", "Mixtral", "GeminiThinking"}

\* the if / else if / else of analyzeImage
Dispatch(v, modelType) ==
    IF modelType = GEMINI THEN "Gemini"
    ELSE IF v = 2 /\ modelType = GEMINI_THINKING THEN "GeminiThinking"
    ELSE "Mixtral"

\* analyzeImage after the preprocessing: its catch logs and rethrows
analyzeImage(v, p, o) ==
    IF p = "Gemini" THEN analyzeWithGemini(o)
    ELSE IF p = "GeminiThinking" THEN analyzeWithGeminiThinking(o)
    ELSE analyzeWithMixtral(v, o)

SharpError == Err("Error", <<"Input buffer contains unsupported image format">>)

----------------------------------------------------------------------------
(* Relay service: POST /ask *)

RateLimitMessage == <<"Rate limit exceeded, ", "please try again later">>

\* HarmCategory and HarmBlockThreshold are used by ask() but restapi.js imports
\* only GoogleGenerativeAI: evaluating the startChat argument throws
HarmCategoryNotDefined == Err("ReferenceError", <<"HarmCategory is not defined">>)

\* the catch of ask(): the two phrases are searched in error.toString()
askCatch(e) ==
    IF \/ includes(ErrToString(e), <<"Too Many Requests">>)
       \/ includes(ErrToString(e), <<"Please try again later">>)
    THEN Err("Error", RateLimitMessage)
    ELSE e

\* whether ask() gets as far as a provider call for this provider
askCallsProvider(p) == p \notin {"Gemini", "GeminiThinking"}

\* ask(prompt, modelType), o being what the provider call comes to
ask(p, o) ==
    IF ~askCallsProvider(p) THEN Rejected(askCatch(HarmCategoryNotDefined))
    ELSE IF o.kind = "reject" THEN Rejected(askCatch(o.error))
    ELSE Fulfilled(NullFilled, Concat(o.frags))

AskOutcomes ==
    { Reject(429, TooManyRequests), Reject(429, RateLimitedPlain),
      Reject(503, Overloaded), Reject(0, NetworkError),
      Reply("text", "", <<>>),
      Reply("text", "", << <<"Hel">>, <<"lo">> >>),
      Reply("text", "", << <<"lo">>, <<"Hel">> >>) }

Prompts == {<<>>, <<"What is a chunk?">>}

----------------------------------------------------------------------------
(* Relay service: limiter, counters, responses *)

Callers == {"c1", "c2"}

max == 10            \* limiter option max
windowMs == 60000    \* limiter option windowMs

\* a limiter that keeps one count for all callers
HitAll(h, c) == [d \in DOMAIN h |-> h[d] + 1]

\* the limiter counts the request, then compares the count with max
Hit(h, c) == [h EXCEPT ![c] = @ + 1]
LimitedOffByOne(n) == n >= max
Limited(n) == n > max

Body(status, has, error, data, response, datas) ==
    [status |-> status, has |-> has, error |-> error, data |-> data,
     response |-> response, datas |-> datas]
ErrorBody(status, message) ==
    Body(status, {"status", "error"}, message, NullFilled, <<>>, <<>>)
DataBody(data, response) == Body(200, {"status", "data"}, <<>>, data, response, <<>>)
DatasBody(datas) == Body(200, {"status", "datas"}, <<>>, NullFilled, <<>>, datas)

\* res.status(code).json(body); res.json(body) sends code 200
Json(code, body) == [code |-> code, type |-> "json", body |-> body]
Html == [code |-> 200, type |-> "html", body |-> ErrorBody(0, <<>>)]
NoRes == [code |-> 0, type |-> "none", body |-> ErrorBody(0, <<>>)]

TooManyResponse ==
    Json(429, ErrorBody(429, <<"Too many requests, please try again after 1 minute">>))
NoImage == Json(400, ErrorBody(400, <<"No image file provided">>))
InvalidModel(endpoint) ==
    Json(400, ErrorBody(400,
        IF endpoint = "/ask"
        THEN <<"Invalid model type. Use GEMINI, MIXTRAL, or GEMINI_THINKING">>
        ELSE <<"Invalid model type. Use GEMINI or MIXTRAL">>))
NoPrompt == Json(400, ErrorBody(400, <<"No prompt provided">>))
Caught(e) == Json(500, ErrorBody(500, e.message))

Unsettled == [state |-> "pending", data |-> NullFilled, response |-> <<>>, error |-> NoErr]
\* a branch: where the call is, what it settled to, and what the provider sent
Branch(pc, result, o) == [pc |-> pc, result |-> result, outcome |-> o]
NoBranch == Branch("none", Unsettled, NoOutcome)
NoBranches == [p \in Providers |-> NoBranch]

\* a request: what it carries, its ordinal among the caller's requests of the
\* window (0 on a route without limiter), whether the limiter let it pass and
\* whether the handler of the route ran
NoReq ==
    [endpoint |-> "none", caller |-> "c1", upload |-> "none", model |-> Undefined,
     prompt |-> <<>>, nth |-> 0, passed |-> FALSE, reached |-> FALSE]
Req(endpoint, c, upload, model, prompt, nth, passed, reached) ==
    [endpoint |-> endpoint, caller |-> c, upload |-> upload, model |-> model,
     prompt |-> prompt, nth |-> nth, passed |-> passed, reached |-> reached]

\* AnalyzeSync without the check of req.file
AnalyzeSyncNoFileCheck(v, file, field) ==
    IF UpperCaseOf(field).threw
    THEN [done |-> TRUE, res |-> Caught(NotAFunction), provider |-> "none"]
    ELSE IF ~ModelTypeHas(v, SelectorKey(field))
    THEN [done |-> TRUE, res |-> InvalidModel("/analyze"), provider |-> "none"]
    ELSE [done |-> FALSE, res |-> NoRes, provider |-> Dispatch(v, SelectorKey(field))]

\* the part of the /analyze handler before its await: the response it sends
\* at once, or the provider whose analyzeImage call it starts
AnalyzeSync(v, file, field) ==
    IF ~file THEN [done |-> TRUE, res |-> NoImage, provider |-> "none"]
    ELSE IF UpperCaseOf(field).threw
    THEN [done |-> TRUE, res |-> Caught(NotAFunction), provider |-> "none"]
    ELSE IF ~ModelTypeHas(v, SelectorKey(field))
    THEN [done |-> TRUE, res |-> InvalidModel("/analyze"), provider |-> "none"]
    ELSE [done |-> FALSE, res |-> NoRes, provider |-> Dispatch(v, SelectorKey(field))]

\* the same for the /ask handler
AskSync(prompt, field) ==
    IF prompt = <<>> THEN [done |-> TRUE, res |-> NoPrompt, provider |-> "none"]
    ELSE IF UpperCaseOf(field).threw
    THEN [done |-> TRUE, res |-> Caught(NotAFunction), provider |-> "none"]
    ELSE IF ~ModelTypeHas(2, SelectorKey(field))
    THEN [done |-> TRUE, res |-> InvalidModel("/ask"), provider |-> "none"]
    ELSE IF ~askCallsProvider(Dispatch(2, SelectorKey(field)))
    THEN [done |-> TRUE, res |-> Caught(ask(Dispatch(2, SelectorKey(field)), NoOutcome).error),
          provider |-> "none"]
    ELSE [done |-> FALSE, res |-> NoRes, provider |-> Dispatch(2, SelectorKey(field))]

\* the .catch of /compareAnalyze: a rejected analyzeImage becomes a null-filled slot
CompareSlot(r) == IF r.state = "rejected" THEN NullFilled ELSE r.data

\* the datas array in the order in which the calls settled
ResponseInSettleOrder(endpoint, b) ==
    IF endpoint = "/compareAnalyze"
    THEN Json(200, DatasBody([k \in 1..Len(settled) |-> CompareSlot(b[settled[k]].result)]))
    ELSE LET p == CHOOSE q \in Providers : b[q].pc = "done"
             r == b[p].result
         IN  IF r.state = "rejected" THEN Caught(r.error)
             ELSE Json(200, DataBody(r.data, r.response))

\* the response a handler sends once its awaits are over
Response(endpoint, b) ==
    IF endpoint = "/compareAnalyze"
    THEN Json(200, DatasBody(<<CompareSlot(b["Gemini"].result),
                               CompareSlot(b["Mixtral"].result),
                               CompareSlot(b["GeminiThinking"].result)>>))
    ELSE LET p == CHOOSE q \in Providers : b[q].pc = "done"
             r == b[p].result
         IN  IF r.state = "rejected" THEN Caught(r.error)
             ELSE Json(200, DataBody(r.data, r.response))

\* an error of the upload or body-parsing middleware goes to the framework's
\* default error handler, which does not answer in JSON
DefaultError(code) == [code |-> code, type |-> "html", body |-> ErrorBody(0, <<>>)]

\* GET /status
StatusBody(v, rc) ==
    [status |-> "running", has |-> IF v = 1 THEN {"status", "models", "version"}
                                   ELSE {"status", "models", "version", "copyright", "requests"},
     requests |-> [f1 |-> rc.analyze, f2 |-> rc.compareAnalyze, total |-> rc.total]]

\* requestCounter.x++ at the head of the handler of each endpoint
Counted(rc, endpoint) ==
    IF endpoint = "/analyze"
    THEN [rc EXCEPT !.analyze = @ + 1, !.total = @ + 1]
    ELSE IF endpoint = "/compareAnalyze"
    THEN [rc EXCEPT !.compareAnalyze = @ + 1, !.total = @ + 1]
    ELSE [rc EXCEPT !.total = @ + 1]

\* what the multipart upload of a request holds: no file, a file in the field
\* `image`, or a file in another field (upload.single rejects the request)
Uploads == {"none", "image", "unexpected"}

Started(p, pc) == [NoBranches EXCEPT ![p] = Branch(pc, Unsettled, NoOutcome)]

----------------------------------------------------------------------------
(* Relay service: the state machine.  One request is followed from its      *)
(* arrival to its response; the requests share only hits and               *)
(* requestCounter, which a handler touches before its first await.         *)

RelayIdle ==
    /\ hits = [c \in Callers |-> 0]
    /\ requestCounter = [analyze |-> 0, compareAnalyze |-> 0, total |-> 0]
    /\ sent = [c \in Callers |-> 0]
    /\ phase = "idle"
    /\ req = NoReq
    /\ branch = NoBranches
    /\ res = NoRes
    /\ settled = <<>>

TotalHits(h) == h["c1"] + h["c2"]

\* a request that goes through `limiter`: counted, and rejected beyond max
\* (variant 1 has no limiter and no counters)
Arrival(c, endpoint, limitedRoute, counted, up, field, prompt, sync) ==
    LET lim == variant = 2 /\ limitedRoute
        h2 == IF lim THEN Hit(hits, c) ELSE hits
        over == lim /\ Limited(h2[c])
        reach == ~over /\ sync.reached
        count == variant = 2 /\ counted /\ reach
    IN  /\ phase = "idle"
        /\ res = NoRes
        /\ lim => TotalHits(hits) < MaxHits
        /\ count => requestCounter.total < MaxTotal
        /\ hits' = h2
        /\ requestCounter' = IF count THEN Counted(requestCounter, endpoint)
                             ELSE requestCounter
        /\ sent' = IF lim THEN [sent EXCEPT ![c] = @ + 1] ELSE sent
        /\ req' = Req(endpoint, c, up, field, prompt,
                      IF lim THEN sent[c] + 1 ELSE 0, ~over, reach)
        /\ res' = IF over THEN TooManyResponse ELSE sync.res
        /\ branch' = IF over THEN NoBranches ELSE sync.branch
        /\ phase' = IF over \/ sync.res # NoRes THEN "idle" ELSE "pending"
        /\ settled' = <<>>
        /\ UNCHANGED <<variant, batchVars>>

\* app.post('/analyze', limiter, upload.single('image'), handler)
AnalyzeRequest(c, up, field) ==
    LET s == AnalyzeSync(variant, up = "image", field)
    IN  Arrival(c, "/analyze", TRUE, TRUE, up, field, <<>>,
            IF up = "unexpected"
            THEN [reached |-> FALSE, res |-> DefaultError(500), branch |-> NoBranches]
            ELSE [reached |-> TRUE, res |-> s.res,
                  branch |-> IF s.done THEN NoBranches ELSE Started(s.provider, "sharp")])

\* app.post('/compareAnalyze', limiter, upload.single('image'), handler):
\* the three analyzeImage calls are made one after the other, each running
\* up to its first await, before Promise.all is awaited
CompareRequest(c, up) ==
    /\ variant = 2
    /\ Arrival(c, "/compareAnalyze", TRUE, TRUE, up, Undefined, <<>>,
            IF up = "unexpected"
            THEN [reached |-> FALSE, res |-> DefaultError(500), branch |-> NoBranches]
            ELSE IF up = "none"
            THEN [reached |-> TRUE, res |-> NoImage, branch |-> NoBranches]
            ELSE [reached |-> TRUE, res |-> NoRes,
                  branch |-> [p \in Providers |-> Branch("sharp", Unsettled, NoOutcome)]])

\* app.post('/ask', limiter, express.json(), handler)
AskRequest(c, parsed, prompt, field) ==
    LET s == AskSync(prompt, field)
    IN  /\ variant = 2
        /\ Arrival(c, "/ask", TRUE, TRUE, "none", field, prompt,
            IF ~parsed
            THEN [reached |-> FALSE, res |-> DefaultError(400), branch |-> NoBranches]
            ELSE [reached |-> TRUE, res |-> s.res,
                  branch |-> IF s.done THEN NoBranches ELSE Started(s.provider, "call")])

\* app.get('/check', limiter, handler) (variant 1: no limiter)
CheckRequest(c) ==
    Arrival(c, "/check", TRUE, FALSE, "none", Undefined, <<>>,
            [reached |-> TRUE, res |-> Html, branch |-> NoBranches])

\* app.get('/status', handler)
StatusRequest(c) ==
    Arrival(c, "/status", FALSE, FALSE, "none", Undefined, <<>>,
            [reached |-> TRUE,
             res |-> Json(200, StatusBody(variant, requestCounter)),
             branch |-> NoBranches])

\* the preprocessing of analyzeImage (sharp ... toBuffer) settles; when it
\* succeeds the provider call is made, when it fails analyzeImage rejects
SharpSettle(p, ok) ==
    /\ phase = "pending"
    /\ branch[p].pc = "sharp"
    /\ branch' = [branch EXCEPT ![p] =
                    IF ok THEN Branch("call", Unsettled, NoOutcome)
                    ELSE Branch("done", Rejected(SharpError), NoOutcome)]
    /\ settled' = IF ok THEN settled ELSE Append(settled, p)
    /\ UNCHANGED <<variant, hits, requestCounter, sent, phase, req, res, batchVars>>

\* the provider call of branch p comes to o; the rest of the async function runs
ProviderSettle(p, o) ==
    /\ phase = "pending"
    /\ branch[p].pc = "call"
    /\ o \in (IF req.endpoint = "/ask" THEN AskOutcomes ELSE AnalysisOutcomes)
    /\ branch' = [branch EXCEPT ![p] =
                    Branch("done",
                           IF req.endpoint = "/ask" THEN ask(p, o)
                           ELSE analyzeImage(variant, p, o),
                           o)]
    /\ settled' = Append(settled, p)
    /\ UNCHANGED <<variant, hits, requestCounter, sent, phase, req, res, batchVars>>

\* every promise the handler awaits has settled: it sends its response
Respond ==
    /\ phase = "pending"
    /\ \A p \in Providers : branch[p].pc \in {"none", "done"}
    /\ res' = Response(req.endpoint, branch)
    /\ phase' = "idle"
    /\ UNCHANGED <<variant, hits, requestCounter, sent, req, branch, settled, batchVars>>

\* the response has gone out and the objects of the request are dropped
Finish ==
    /\ phase = "idle"
    /\ res # NoRes
    /\ req' = NoReq
    /\ branch' = NoBranches
    /\ res' = NoRes
    /\ settled' = <<>>
    /\ UNCHANGED <<variant, hits, requestCounter, sent, phase, batchVars>>

\* the window of caller c is over: the limiter forgets its count
WindowElapse(c) ==
    /\ variant = 2
    /\ hits[c] > 0
    /\ hits' = [hits EXCEPT ![c] = 0]
    /\ sent' = [sent EXCEPT ![c] = 0]
    /\ UNCHANGED <<variant, requestCounter, phase, req, branch, res, settled, batchVars>>

----------------------------------------------------------------------------
(* Batch job: the word list, the provider replies, the extraction *)

ChunkSize == 100     \* the step of the chunking loop and the width of a slice

Min(a, b) == IF a < b THEN a ELSE b

\* a line of cached_words.txt: 0 is a line of white space only, k > 0 the word k
WordCounts == {0, 1, ChunkSize, ChunkSize + 1, 2 * ChunkSize, MaxWords}
WordLines(n, blanks) ==
    LET ws == [k \in 1..n |-> k]
    IN  IF blanks = "none" THEN ws
        ELSE IF blanks = "trailing" THEN ws \o <<0>>
        ELSE IF n = 0 THEN <<0, 0>>
        ELSE <<1, 0>> \o SubSeq(ws, 2, n)

\* content.split('\n').filter(word => word.trim())
FilterWords(ls) == SelectSeq(ls, LAMBDA l : l # 0)

\* the chunking loop with slices one word too wide
RECURSIVE ChunksFromWide(_, _)
ChunksFromWide(ws, i) ==
    IF i >= Len(ws) THEN <<>>
    ELSE <<SubSeq(ws, i + 1, Min(i + ChunkSize + 1, Len(ws)))>>
            \o ChunksFromWide(ws, i + ChunkSize)

\* for (i = 0; i < words.length; i += 100) chunks.push(words.slice(i, i + 100))
RECURSIVE ChunksFrom(_, _)
ChunksFrom(ws, i) ==
    IF i >= Len(ws) THEN <<>>
    ELSE <<SubSeq(ws, i + 1, Min(i + ChunkSize, Len(ws)))>> \o ChunksFrom(ws, i + ChunkSize)
Chunks(ws) == ChunksFrom(ws, 0)

\* a piece of a provider reply: a bracket, the record of word w, or other text
Tok(t, w) == [t |-> t, w |-> w]
Open == Tok("[", 0)
Close == Tok("]", 0)
Txt == Tok("txt", 0)
Rec(w) == Tok("rec", w)
Records(ws) == [k \in 1..Len(ws) |-> Rec(ws[k])]

\* what the streamed call of one chunk comes to; label says what was sent
BReply(label, frags) == [kind |-> "reply", label |-> label, frags |-> frags]
BReject(label) == [kind |-> "reject", label |-> label, frags |-> <<>>]

Replies(chunk) ==
    { BReject("failed"),
      BReply("wellformed", << <<Open>>, Records(chunk), <<Close>> >>),
      BReply("wellformed", << <<Txt, Txt, Open>> \o Records(chunk), <<Close, Txt>> >>),
      BReply("noarray", << <<Txt>>, <<Txt>> >>),
      BReply("malformed", << <<Open>> \o Records(chunk), <<Txt, Close>> >>),
      BReply("trailing", << <<Open>> \o Records(chunk) \o <<Close>>, <<Txt, Open, Close>> >>) }

\* response.match(/\[[\s\S]*\]/): from the first "[" to the last "]" after it
ArrayMatch(text) ==
    LET opens == {a \in 1..Len(text) : text[a].t = "["}
        a == CHOOSE x \in opens : \A y \in opens : x <= y
        closes == {b \in 1..Len(text) : b > a /\ text[b].t = "]"}
        b == CHOOSE x \in closes : \A y \in closes : x >= y
    IN  IF opens = {} THEN [found |-> FALSE, text |-> <<>>]
        ELSE IF closes = {} THEN [found |-> FALSE, text |-> <<>>]
        ELSE [found |-> TRUE, text |-> SubSeq(text, a, b)]

\* JSON.parse of an array text.  The text is an array when it opens with a
\* bracket that its last token closes, its brackets nest, and it holds nothing
\* but records and nested arrays; the value lists the elements of the outer
\* array (a nested array is kept as one opaque element)
Depth(toks, i) ==
    Cardinality({j \in 1..i : toks[j].t = "["}) - Cardinality({j \in 1..i : toks[j].t = "]"})

JSONParseArray(toks) ==
    LET n == Len(toks)
        nested == /\ n >= 2
                  /\ toks[1].t = "["
                  /\ \A i \in 1..(n - 1) : Depth(toks, i) >= 1
                  /\ Depth(toks, n) = 0
        clean == \A i \in 1..n : toks[i].t # "txt"
        marked == [i \in 1..n |-> [tok |-> toks[i], d |-> Depth(toks, i)]]
        top == SelectSeq(marked, LAMBDA m : \/ m.tok.t = "rec" /\ m.d = 1
                                            \/ m.tok.t = "[" /\ m.d = 2)
    IN  IF nested /\ clean
        THEN [ok |-> TRUE,
              value |-> [k \in 1..Len(top) |->
                            IF top[k].tok.t = "rec" THEN top[k].tok ELSE Tok("array", 0)]]
        ELSE [ok |-> FALSE, value |-> <<>>]

\* queryGemini without its try/catch
queryGeminiNoCatch(o) ==
    LET m == ArrayMatch(Concat(o.frags))
        p == JSONParseArray(m.text)
    IN  IF o.kind = "reject" THEN [threw |-> TRUE, value |-> <<>>]
        ELSE IF ~m.found THEN [threw |-> FALSE, value |-> <<>>]
        ELSE IF p.ok THEN [threw |-> FALSE, value |-> p.value]
        ELSE [threw |-> TRUE, value |-> <<>>]

\* queryGemini(words), o being what the streamed call comes to: everything
\* thrown inside its try is caught and answered with []
queryGemini(o) ==
    LET m == ArrayMatch(Concat(o.frags))
        p == JSONParseArray(m.text)
    IN  IF o.kind = "reject" THEN [threw |-> FALSE, value |-> <<>>]
        ELSE IF ~m.found THEN [threw |-> FALSE, value |-> <<>>]
        ELSE IF p.ok THEN [threw |-> FALSE, value |-> p.value]
        ELSE [threw |-> FALSE, value |-> <<>>]

NoFile == [exists |-> FALSE, content |-> <<>>]
File(content) == [exists |-> TRUE, content |-> content]

\* chunk files a previous run may have left in the output directory
OutDirs == {{}, {0}, {0, ChunkSize, 2 * ChunkSize}}

----------------------------------------------------------------------------
(* Batch job: processWords, one action per await *)

BatchOff ==
    /\ bpc = "off"
    /\ lines = <<>>
    /\ outDir = {}
    /\ words = <<>>
    /\ chunks = <<>>
    /\ ci = 0
    /\ allResults = <<>>
    /\ requested = <<>>
    /\ contrib = <<>>
    /\ inflight = 0
    /\ combined = NoFile

\* await fs.readFile(...), then the split, the chunking loop and allResults = [];
\* a failed read is caught by the outer catch, which only logs
ReadWords(ok) ==
    /\ bpc = "start"
    /\ IF ok
       THEN /\ words' = FilterWords(lines)
            /\ chunks' = Chunks(FilterWords(lines))
            /\ bpc' = "loop"
       ELSE /\ bpc' = "failed"
            /\ UNCHANGED <<words, chunks>>
    /\ UNCHANGED <<lines, outDir, ci, allResults, requested, contrib, inflight,
                   combined, relayVars>>

\* i < chunks.length: queryGemini(chunks[i]) sends its request and awaits
StartQuery ==
    /\ bpc = "loop"
    /\ ci < Len(chunks)
    /\ requested' = Append(requested, ci * ChunkSize)
    /\ inflight' = inflight + 1
    /\ bpc' = "query"
    /\ UNCHANGED <<lines, outDir, words, chunks, ci, allResults, contrib,
                   combined, relayVars>>

\* what the call in flight may come to
QueryOutcomes == IF bpc = "query" THEN Replies(chunks[ci + 1]) ELSE {}

\* the call of chunk i comes to o; allResults.push(...results), then the sleep
\* (an exception leaving queryGemini would end the job in the outer catch)
QueryReturn(o) ==
    /\ bpc = "query"
    /\ inflight' = inflight - 1
    /\ contrib' = Append(contrib, [label |-> o.label, value |-> queryGemini(o).value])
    /\ IF queryGemini(o).threw
       THEN /\ bpc' = "failed"
            /\ UNCHANGED allResults
       ELSE /\ bpc' = "sleep"
            /\ allResults' = allResults \o queryGemini(o).value
    /\ UNCHANGED <<lines, outDir, words, chunks, ci, requested, combined, relayVars>>

\* await this.sleep(1, 3) is over: i++
SleepDone ==
    /\ bpc = "sleep"
    /\ ci' = ci + 1
    /\ bpc' = "loop"
    /\ UNCHANGED <<lines, outDir, words, chunks, allResults, requested, contrib,
                   inflight, combined, relayVars>>

\* after the loop: fs.writeFile('all_dic.json', ...); a failed write is caught
SaveResults(ok) ==
    /\ bpc = "loop"
    /\ ci >= Len(chunks)
    /\ IF ok
       THEN /\ combined' = File(allResults)
            /\ bpc' = "done"
       ELSE /\ bpc' = "failed"
            /\ UNCHANGED combined
    /\ UNCHANGED <<lines, outDir, words, chunks, ci, allResults, requested,
                   contrib, inflight, relayVars>>

----------------------------------------------------------------------------
(* Specifications *)

Init ==
    /\ variant \in {1, 2}
    /\ RelayIdle
    /\ BatchOff

\* the relay with every input and every provider outcome, one caller
Next ==
    \/ \E up \in Uploads, f \in ModelFields : AnalyzeRequest("c1", up, f)
    \/ \E up \in Uploads : CompareRequest("c1", up)
    \/ \E parsed \in BOOLEAN, pr \in Prompts, f \in ModelFields :
            AskRequest("c1", parsed, pr, f)
    \/ CheckRequest("c1")
    \/ StatusRequest("c1")
    \/ \E p \in Providers, ok \in BOOLEAN : SharpSettle(p, ok)
    \/ \E p \in Providers, o \in AnalysisOutcomes \cup AskOutcomes : ProviderSettle(p, o)
    \/ Respond
    \/ Finish
    \/ WindowElapse("c1")

Spec == Init /\ [][Next]_vars

\* the relay with two callers; the requests carry fewer bodies and every
\* provider answers well, as neither changes what the limiter and the counters do
LightFields == {Undefined, Str(GEMINI)}
LightAnalysis == {Reply("json", "{obj1}", << <<"~~~json", "{obj1}">>, <<"~~~">> >>)}
LightAsk == {Reply("text", "", << <<"Hel">>, <<"lo">> >>)}

LimiterNext ==
    \/ \E c \in Callers, up \in Uploads, f \in LightFields : AnalyzeRequest(c, up, f)
    \/ \E c \in Callers, up \in Uploads : CompareRequest(c, up)
    \/ \E c \in Callers, pr \in Prompts, f \in {Str(MIXTRAL)} : AskRequest(c, TRUE, pr, f)
    \/ \E c \in Callers : CheckRequest(c)
    \/ \E c \in Callers : StatusRequest(c)
    \/ \E p \in Providers : SharpSettle(p, TRUE)
    \/ \E p \in Providers, o \in LightAnalysis \cup LightAsk : ProviderSettle(p, o)
    \/ Respond
    \/ Finish
    \/ \E c \in Callers : WindowElapse(c)

LimiterSpec == Init /\ [][LimiterNext]_vars

BatchInit ==
    /\ variant = 2
    /\ RelayIdle
    /\ bpc = "start"
    /\ \E n \in WordCounts, blanks \in {"none", "trailing", "inner"} :
            lines = WordLines(n, blanks)
    /\ outDir \in OutDirs
    /\ words = <<>>
    /\ chunks = <<>>
    /\ ci = 0
    /\ allResults = <<>>
    /\ requested = <<>>
    /\ contrib = <<>>
    /\ inflight = 0
    /\ combined = NoFile

BatchNext ==
    \/ \E ok \in BOOLEAN : ReadWords(ok)
    \/ StartQuery
    \/ \E o \in QueryOutcomes : QueryReturn(o)
    \/ SleepDone
    \/ \E ok \in BOOLEAN : SaveResults(ok)

BatchSpec == BatchInit /\ [][BatchNext]_vars

----------------------------------------------------------------------------
(* Properties of the relay service *)

Responded == res # NoRes
NoProviderWork == \A p \in Providers : branch[p].pc = "none"

\* the selector names a provider of the enumeration, letter case aside
NamesProvider(v, field) ==
    field.type = "string" /\ \E k \in ModelType(v) : toUpperCase(field.chars) = k

\* C1: a POST /analyze that passed the limiter and carries no file is answered
\* 400 with body status 400, and neither the preprocessing nor a provider call
\* is started for it, whatever its provider field holds (both variants).
C1_NoFileIs400 ==
    (req.endpoint = "/analyze" /\ req.passed /\ req.upload = "none")
        => /\ res.code = 400
           /\ res.body.status = 400
           /\ NoProviderWork

C1_Witness ==
    /\ req.endpoint = "/analyze"
    /\ req.passed
    /\ req.upload = "none"
    /\ req.model = Str(GEMINI)
    /\ res.code = 400

\* C2: a POST /analyze with a file whose provider field is missing or names no
\* provider of the enumeration is answered 400, never 500, and no provider
\* call is made.
C2_InvalidProviderIs400 ==
    (req.endpoint = "/analyze" /\ req.reached /\ req.upload = "image"
        /\ ~NamesProvider(variant, req.model))
        => /\ res.code = 400
           /\ NoProviderWork

\* the slot of provider p in the datas array
SlotIndex(p) == IF p = "Gemini" THEN 1 ELSE IF p = "Mixtral" THEN 2 ELSE 3

\* the branch of provider p failed: the preprocessing or the call failed, or
\* the reply held no JSON
BranchFailed(p) ==
    branch[p].pc = "done" /\ branch[p].outcome.label \in {"none", "error", "nojson"}

\* C3: POST /compareAnalyze with a file answers 200; the slot of every failing
\* provider has its four fields null, the slot of every other provider holds
\* the object the provider sent.
C3_FailingSlotsNullFilled ==
    (req.endpoint = "/compareAnalyze" /\ req.reached /\ req.upload = "image" /\ Responded)
        => /\ res.code = 200
           /\ \A p \in Providers :
                IF BranchFailed(p)
                THEN res.body.datas[SlotIndex(p)] = NullFilled
                ELSE res.body.datas[SlotIndex(p)] = ObjectValue(branch[p].outcome.json)

C8_FailureIs500 ==
    (req.endpoint = "/analyze" /\ Responded /\ \E p \in Providers : BranchFailed(p))
        => /\ res.code = 500
           /\ "error" \in res.body.has

\* C9: a POST /ask with a prompt and a valid selector gets as far as the
\* provider, and when the provider streams its reply without error the
\* response is 200 with data.response the fragments joined in arrival order.
C9_AskReturnsConcatenation ==
    (req.endpoint = "/ask" /\ req.reached /\ req.prompt # <<>>
        /\ NamesProvider(2, req.model) /\ Responded)
        => \E p \in Providers :
            /\ branch[p].pc = "done"
            /\ branch[p].outcome.kind = "reply"
                => /\ res.code = 200
                   /\ res.body.response = Concat(branch[p].outcome.frags)

\* C10: when the upstream of POST /ask reports a rate limit (status 429) the
\* error returned is the fixed rate-limit message, and when it fails for
\* another reason the error returned is another message.
C10_RateLimitDistinguished ==
    (req.endpoint = "/ask" /\ Responded)
        => \A p \in Providers :
            (branch[p].pc = "done" /\ branch[p].outcome.kind = "reject")
                => (branch[p].outcome.status = 429 <=> res.body.error = RateLimitMessage)

\* the three endpoints that answer in a JSON envelope
EnvelopeEndpoints == {"/analyze", "/compareAnalyze", "/ask"}

\* C11: every response of /analyze, /compareAnalyze and /ask, whatever the path
\* (success, rate-limit rejection, upload or body-parsing failure, validation
\* failure, provider failure), is a JSON body with a status field equal to the
\* HTTP status code.
C11_AlwaysJsonEnvelope ==
    (req.endpoint \in EnvelopeEndpoints /\ Responded)
        => /\ res.type = "json"
           /\ "status" \in res.body.has
           /\ res.body.status = res.code

\* C12: for a POST /compareAnalyze with a file the three analyzeImage calls are
\* all started before the handler awaits (none is ever unstarted), the
\* response is sent only when all three have settled, and datas lists the
\* results of GEMINI, MIXTRAL, GEMINI_THINKING in that order whatever the
\* order in which they settled or failed.
C12_FanOutFanIn ==
    (req.endpoint = "/compareAnalyze" /\ req.reached /\ req.upload = "image")
        => /\ \A p \in Providers : branch[p].pc # "none"
           /\ Len(settled) = Cardinality({p \in Providers : branch[p].pc = "done"})
           /\ Responded =>
                /\ \A p \in Providers : branch[p].pc = "done"
                /\ {settled[k] : k \in 1..Len(settled)} = Providers
                /\ Len(res.body.datas) = 3
                /\ res.body.datas[1] = CompareSlot(branch["Gemini"].result)
                /\ res.body.datas[2] = CompareSlot(branch["Mixtral"].result)
                /\ res.body.datas[3] = CompareSlot(branch["GeminiThinking"].result)

\* the calls settled in the reverse of the fixed order, the first to settle
\* failed, and the three slots differ
C12_Witness ==
    /\ req.endpoint = "/compareAnalyze"
    /\ Responded
    /\ settled = <<"GeminiThinking", "Mixtral", "Gemini">>
    /\ branch["GeminiThinking"].result.state = "rejected"
    /\ res.body.datas = <<Parsed1, Parsed2, NullFilled>>

\* a step on which a request arrives
Arrives == req = NoReq /\ req' # NoReq

\* 1 on a step that brings a request of endpoint e to its handler, otherwise 0
Handled(e) == IF Arrives /\ req'.endpoint = e /\ req'.reached THEN 1 ELSE 0

C14_Step ==
    variant = 2 =>
        /\ requestCounter'.analyze = requestCounter.analyze + Handled("/analyze")
        /\ requestCounter'.compareAnalyze =
                requestCounter.compareAnalyze + Handled("/compareAnalyze")
        /\ requestCounter'.total >= requestCounter.total
        /\ requestCounter'.total =
                requestCounter'.analyze + requestCounter'.compareAnalyze
        /\ (Arrives /\ res'.code = 429) => requestCounter' = requestCounter

\* C14: on every step each per-endpoint count grows by one exactly when a
\* request of its endpoint reaches the handler, no counter decreases, the
\* total is the sum of the per-endpoint counts, and a request answered 429
\* leaves the counters as they were.
C14_CountersPerEndpoint == [][C14_Step]_vars

\* the routes registered with `limiter`
LimitedEndpoints == {"/analyze", "/compareAnalyze", "/ask", "/check"}

C15_State ==
    variant = 2 =>
        /\ req.endpoint \in LimitedEndpoints =>
                /\ req.nth >= 1
                /\ req.nth <= max => req.passed /\ res.code # 429
                /\ req.nth > max => /\ ~req.passed
                                    /\ ~req.reached
                                    /\ res.code = 429
                                    /\ NoProviderWork
        /\ req.endpoint = "/status" =>
                /\ req.passed
                /\ req.reached
                /\ res.code = 200

C15_Step ==
    (variant = 2 /\ Arrives) =>
        /\ \A d \in Callers \ {req'.caller} : hits'[d] = hits[d]
        /\ req'.endpoint \in LimitedEndpoints =>
                hits'[req'.caller] = hits[req'.caller] + 1
        /\ req'.endpoint = "/status" => hits' = hits

\* C15: the requests of a caller to /analyze, /compareAnalyze, /ask and
\* GET /check are counted together: the nth of them in a window passes the
\* limiter when n <= 10 and is answered 429 when n > 10, whatever the other
\* caller has sent; a request changes no count but its own caller's; GET
\* /status is always answered 200 and changes no count.
C15_SharedWindowPerCaller == []C15_State /\ [][C15_Step]_vars

\* the eleventh request of a caller, a POST /ask after requests to other
\* limited routes, is answered 429 while the other caller is within its quota
C15_Witness ==
    /\ variant = 2
    /\ req.endpoint = "/ask"
    /\ req.nth = max + 1
    /\ res.code = 429
    /\ requestCounter.analyze >= 1
    /\ requestCounter.compareAnalyze >= 1
    /\ \E d \in Callers \ {req.caller} : hits[d] \in 1..max

----------------------------------------------------------------------------
(* Properties of the batch job *)

CeilDiv(n, c) == (n + c - 1) \div c
ChunkOffsets(n) == {k * ChunkSize : k \in 0..(CeilDiv(n, ChunkSize) - 1)}
AllWellFormed == \A k \in 1..Len(contrib) : contrib[k].label = "wellformed"

\* C5: when every reply is well-formed the finished job has written one chunk
\* file per chunk, named by the starting offset, and a combined file holding
\* one record per input word in input order.
C5_ChunkFilesAndCombined ==
    (bpc = "done" /\ AllWellFormed)
        => /\ ChunkOffsets(Len(words)) \subseteq outDir
           /\ combined = File(Records(words))

\* C6: a chunk whose file exists is never requested, and with the files of
\* offsets 0, C and 2C present the first request is the one of offset 3C.
C6_ResumeSkipsExisting ==
    /\ \A k \in 1..Len(requested) : requested[k] \notin outDir
    /\ (outDir = {0, ChunkSize, 2 * ChunkSize} /\ requested # <<>>)
            => requested[1] = 3 * ChunkSize

\* C7: a chunk whose call fails, whose reply holds no array or whose extracted
\* text does not parse contributes nothing; every chunk is requested once, in
\* turn, whatever became of the chunks before it; and the job ends only after
\* the last chunk, writing the combined file.
C7_FailedChunkSkipped ==
    /\ \A k \in 1..Len(contrib) :
            contrib[k].label \in {"failed", "noarray", "malformed", "trailing"}
                => contrib[k].value = <<>>
    /\ \A k \in 1..Len(requested) : requested[k] = (k - 1) * ChunkSize
    /\ Len(requested) <= Len(chunks)
    /\ Len(contrib) = Len(requested) - inflight
    /\ (bpc = "failed" /\ chunks # <<>>) => Len(requested) = Len(chunks)
    /\ bpc = "done" => /\ Len(requested) = Len(chunks)
                       /\ combined = File(allResults)

C7_Witness ==
    /\ bpc = "done"
    /\ Len(contrib) = 3
    /\ contrib[1].label = "noarray"
    /\ contrib[2].label = "failed"
    /\ contrib[3].label = "wellformed"
    /\ combined = File(Records(chunks[3]))

\* the words of the chunk requested at offset off
SliceAt(off) == SubSeq(words, off + 1, Min(off + ChunkSize, Len(words)))

\* C13: at most one provider call is in flight; the request of chunk i+1 goes
\* out only when the call of chunk i has returned or failed and the sleep after
\* it is over; the chunks are requested in ascending offset order, each the
\* contiguous slice of at most C words at its offset, so that when the job is
\* done every input word has been sent in exactly one chunk.
C13_OneCallInFlight ==
    /\ inflight \in {0, 1}
    /\ inflight = 1 <=> bpc = "query"
    /\ Len(contrib) = Len(requested) - inflight
    /\ Len(requested) = ci + (IF bpc \in {"query", "sleep"} THEN 1 ELSE 0)
    /\ Len(requested) <= Len(chunks)
    /\ \A k \in 1..Len(requested) :
            /\ requested[k] = (k - 1) * ChunkSize
            /\ chunks[k] = SliceAt(requested[k])
            /\ Len(chunks[k]) \in 1..ChunkSize
    /\ bpc = "done" =>
            \A w \in 1..Len(words) :
                Cardinality({k \in 1..Len(requested) :
                                /\ requested[k] < w
                                /\ w <= requested[k] + Len(chunks[k])}) = 1

\* the third request is out, after a failed first call, for the one word left
C13_Witness ==
    /\ bpc = "query"
    /\ inflight = 1
    /\ requested = <<0, ChunkSize, 2 * ChunkSize>>
    /\ Len(words) > 2 * ChunkSize
    /\ Len(chunks[3]) \in 1..ChunkSize
    /\ contrib[1].label = "failed"
    /\ contrib[2].label = "wellformed"

\* the records of the chunk behind the k-th reply
SentRecords(k) == Records(chunks[k])

\* C16: the result of a chunk is the first top-level array of the reply: a
\* reply made of text, a well-formed array and trailing text (brackets in it
\* or not) gives the elements of that array, and the result is empty only
\* when the call failed, the reply holds no array or the array is malformed.
C16_FirstArrayExtracted ==
    \A k \in 1..Len(contrib) :
        /\ contrib[k].label \in {"wellformed", "trailing"}
                => contrib[k].value = SentRecords(k)
        /\ contrib[k].value = <<>>
                => contrib[k].label \in {"failed", "noarray", "malformed"}

====
